---- MODULE Spec2Model ----
(***************************************************************************)
(* Secure-Flask-Portal: key manager (utils.py, init_db.py), field cipher   *)
(* (utils.py), record store (models.py, init_db.py) and route guards       *)
(* (app.py), as state machines.                                            *)
(***************************************************************************)
EXTENDS Integers, Sequences, FiniteSets, TLC

VARIABLES
  environ,          \* per process: os.environ.get("FERNET_KEY"), None when unset
  FERNET_INSTANCE,  \* per process: utils._FERNET_INSTANCE (the key it wraps), None when unset
  keyfile,          \* the file key.key at the project root
  pc,               \* per process: position inside ensure_fernet_key
  key_bytes,        \* per process: local variable key_bytes of ensure_fernet_key
  nGenerated,       \* number of Fernet.generate_key() calls so far
  written,          \* set of generated keys written to key.key
  res,              \* per process: what the last key resolution observed and returned
  lastUse,          \* per process: key used by the last encrypt_text/decrypt_text
  envChanges,       \* number of environment changes made after key resolution
  db,               \* app.db: the tables Employees, Users and EmpPayRaise
  schema,           \* whether app.db has its tables (CREATE TABLE IF NOT EXISTS ran)
  resp,             \* the outcome of the last call or request
  session,          \* the Flask session of the browser
  submitted         \* the add_payraise submissions answered "Record added", oldest first

keyVars == <<environ, FERNET_INSTANCE, keyfile, pc, key_bytes, nGenerated, written, res,
             lastUse, envChanges>>

dbVars == <<db, schema>>

webVars == <<session, submitted>>

vars == <<keyVars, dbVars, resp, webVars>>

(* ------------------------------ bounds --------------------------------- *)
NumProcs == 2
NumEnvKeys == 1
MaxEnvChanges == 1

Procs == 1..NumProcs
EnvKeys == 1..NumEnvKeys

(* Python's None / an unset environment variable / SQL NULL *)
None == 0

(* ---------------------------- key manager ------------------------------ *)
OwnerOnly == "0o600"
UmaskDefault == "0o666 & ~umask"

NoFile == [exists |-> FALSE, content |-> None, mode |-> UmaskDefault]

\* Fernet.generate_key(): fresh random key material, never an externally supplied key
GenerateKey(n) == NumEnvKeys + 1 + n

IsGenerated(k) == k > NumEnvKeys + 1

\* pathlib.Path.write_bytes: creates the file with the umask's mode, or keeps the mode
WriteBytes(kf, k) ==
  [exists |-> TRUE, content |-> k,
   mode |-> IF kf.exists THEN kf.mode ELSE UmaskDefault]

\* os.chmod(key_path, 0o600)
Chmod600(kf) == [kf EXCEPT !.mode = OwnerOnly]

LoadFileFirst(env, kf) ==
  IF kf.exists THEN [ok |-> TRUE, key |-> kf.content, path |-> "file"]
  ELSE IF env # None THEN [ok |-> TRUE, key |-> env, path |-> "env"]
  ELSE [ok |-> FALSE, key |-> None, path |-> "RuntimeError"]

\* utils._load_fernet_key: environment first, then key.key, else RuntimeError
LoadFernetKey(env, kf) ==
  IF env # None THEN [ok |-> TRUE, key |-> env, path |-> "env"]
  ELSE IF kf.exists THEN [ok |-> TRUE, key |-> kf.content, path |-> "file"]
  ELSE [ok |-> FALSE, key |-> None, path |-> "RuntimeError"]

GetFernetReload(cache, env, kf) == LoadFernetKey(env, kf)

\* utils.get_fernet: the cached instance, loaded on first use
GetFernet(cache, env, kf) ==
  IF cache = None THEN LoadFernetKey(env, kf)
  ELSE [ok |-> TRUE, key |-> cache, path |-> "cache"]

\* the last key resolution of a process: the function, the branch taken, the key returned
NoRes == [fn |-> "none", path |-> "none", key |-> None]

NoResp == [op |-> "none"]

NoUse == [key |-> None, envDiffers |-> FALSE]

\* ensure_fernet_key, lines 28-38: the environment key wins; then key.key, read and
\* exported; else Fernet.generate_key()
EnsureStart(p) ==
  /\ pc[p] = "idle"
  /\ IF environ[p] # None
       THEN /\ res' = [res EXCEPT ![p] =
                         [fn |-> "ensure_fernet_key", path |-> "env", key |-> environ[p]]]
            /\ UNCHANGED <<pc, environ, key_bytes, nGenerated>>
       ELSE IF keyfile.exists
       THEN /\ environ' = [environ EXCEPT ![p] = keyfile.content]
            /\ res' = [res EXCEPT ![p] =
                         [fn |-> "ensure_fernet_key", path |-> "file", key |-> keyfile.content]]
            /\ UNCHANGED <<pc, key_bytes, nGenerated>>
       ELSE /\ pc' = [pc EXCEPT ![p] = "write"]
            /\ key_bytes' = [key_bytes EXCEPT ![p] = GenerateKey(nGenerated + 1)]
            /\ nGenerated' = nGenerated + 1
            /\ res' = [res EXCEPT ![p] =
                         [fn |-> "ensure_fernet_key", path |-> "pending", key |-> None]]
            /\ UNCHANGED environ
  /\ UNCHANGED <<FERNET_INSTANCE, keyfile, written, lastUse, envChanges>>

\* ensure_fernet_key, line 39: key_path.write_bytes(key_bytes)
EnsureWrite(p) ==
  /\ pc[p] = "write"
  /\ keyfile' = WriteBytes(keyfile, key_bytes[p])
  /\ written' = written \cup {key_bytes[p]}
  /\ pc' = [pc EXCEPT ![p] = "chmod"]
  /\ UNCHANGED <<environ, FERNET_INSTANCE, key_bytes, nGenerated, res, lastUse, envChanges>>

\* ensure_fernet_key, lines 40-42: chmod 0600, export the key, return it
EnsureChmod(p) ==
  /\ pc[p] = "chmod"
  /\ keyfile' = Chmod600(keyfile)
  /\ environ' = [environ EXCEPT ![p] = key_bytes[p]]
  /\ res' = [res EXCEPT ![p] =
               [fn |-> "ensure_fernet_key", path |-> "generated", key |-> key_bytes[p]]]
  /\ key_bytes' = [key_bytes EXCEPT ![p] = None]
  /\ pc' = [pc EXCEPT ![p] = "idle"]
  /\ UNCHANGED <<FERNET_INSTANCE, nGenerated, written, lastUse, envChanges>>

\* encrypt_text / decrypt_text, as far as the key is concerned: fernet = get_fernet()
UseCipher(p) ==
  /\ pc[p] = "idle"
  /\ LET f == GetFernet(FERNET_INSTANCE[p], environ[p], keyfile) IN
       /\ FERNET_INSTANCE' = [FERNET_INSTANCE EXCEPT ![p] = f.key]
       /\ lastUse' = [lastUse EXCEPT ![p] =
                        [key |-> f.key,
                         envDiffers |-> f.ok /\ environ[p] # None /\ environ[p] # f.key]]
       /\ res' = IF f.path = "cache" THEN res
                 ELSE [res EXCEPT ![p] = [fn |-> "get_fernet", path |-> f.path, key |-> f.key]]
  /\ UNCHANGED <<environ, keyfile, pc, key_bytes, nGenerated, written, envChanges>>

\* a change of the process environment after the key was resolved:
\* os.environ["FERNET_KEY"] = k, or its removal
SetEnviron(p, k) ==
  /\ pc[p] = "idle"
  /\ FERNET_INSTANCE[p] # None
  /\ envChanges < MaxEnvChanges
  /\ environ[p] # k
  /\ environ' = [environ EXCEPT ![p] = k]
  /\ envChanges' = envChanges + 1
  /\ UNCHANGED <<FERNET_INSTANCE, keyfile, pc, key_bytes, nGenerated, written, res, lastUse>>

(* ----------------------------- field cipher ---------------------------- *)

\* a text is a sequence of segments; the segment " " is whitespace
SP == " "

RECURSIVE LStrip(_)
LStrip(s) == IF s # <<>> /\ Head(s) = SP THEN LStrip(Tail(s)) ELSE s

RECURSIVE RStrip(_)
RStrip(s) == IF s # <<>> /\ s[Len(s)] = SP THEN RStrip(SubSeq(s, 1, Len(s) - 1)) ELSE s

\* str.strip()
Strip(s) == RStrip(LStrip(s))

\* SQL NULL in a BLOB column
NullBlob == [kind |-> "null"]

\* bytes that are no Fernet token, such as a text stored as it is
RawBlob(s) == [kind |-> "raw", plain |-> s]

EncryptRaw(k, plain) == RawBlob(plain)

EncryptNoStrip(k, plain) == [kind |-> "fernet", key |-> k, plain |-> plain]

\* utils.encrypt_text with the key of get_fernet(): a Fernet token of the stripped text
EncryptText(k, plain) == [kind |-> "fernet", key |-> k, plain |-> Strip(plain)]

\* utils.decrypt_text with the key of get_fernet(): InvalidToken unless the token was
\* made under the same key
DecryptText(k, cipher) ==
  IF cipher.kind = "fernet" /\ cipher.key = k
    THEN [ok |-> TRUE, text |-> cipher.plain]
    ELSE [ok |-> FALSE, text |-> <<>>]

\* float(s) of the amounts the model submits, in hundredths; ok is FALSE on ValueError
Float(s) ==
  CASE s = <<"1250.00">> -> [ok |-> TRUE, v |-> 125000]
    [] s = <<"12.5">>    -> [ok |-> TRUE, v |-> 1250]
    [] s = <<"0">>       -> [ok |-> TRUE, v |-> 0]
    [] s = <<"-5">>      -> [ok |-> TRUE, v |-> 0 - 500]
    [] OTHER             -> [ok |-> FALSE, v |-> 0]

\* f"{x:.2f}" of those amounts
Format2f(v) ==
  CASE v = 125000  -> <<"1250.00">>
    [] v = 1250    -> <<"12.50">>
    [] v = 0       -> <<"0.00">>
    [] v = 0 - 500 -> <<"-5.00">>

\* the texts datetime.strptime(text, "%Y-%m-%d") parses, among those the model submits:
\* %Y takes four digits, while %m and %d also take a single digit without the zero
StrptimeYmd == {<<"2025-01-01">>, <<"2024-02-29">>, <<"2025-1-5">>}

\* utils.is_valid_date: datetime.strptime(date_str.strip(), "%Y-%m-%d") succeeds
is_valid_date(s) ==
  /\ Strip(s) # <<>>
  /\ Strip(s) \in StrptimeYmd

\* utils.is_positive_number: float(value) > 0
is_positive_number(s) ==
  /\ Strip(s) # <<>>
  /\ Float(s).ok
  /\ Float(s).v > 0

(* ----------------------------- record store ---------------------------- *)

\* werkzeug generate_password_hash / check_password_hash
generate_password_hash(pw) == <<"hash", pw>>
check_password_hash(h, pw) == h = <<"hash", pw>>

EmptyDb == [Employees |-> <<>>, Users |-> <<>>, EmpPayRaise |-> <<>>]

\* AUTOINCREMENT ids of a table without deletions: the row's position
Ids(table) == 1..Len(table)

\* models._get_connection never issues PRAGMA foreign_keys = ON, so SQLite leaves
\* foreign-key enforcement off on the connections of models.py
ModelsForeignKeys == FALSE

\* init_db.initialize_database issues PRAGMA foreign_keys = ON
InitDbForeignKeys == TRUE

\* the FOREIGN KEY constraints of EmpPayRaise, when the connection enforces them
PayRaiseFkOk(d, fk, emp_id, user_id) ==
  fk => (emp_id \in Ids(d.Employees) /\ user_id \in Ids(d.Users))

\* SELECT ... FROM Users WHERE username = ?: the id of the row, None without one
UserIdByName(d, username) ==
  IF \E i \in Ids(d.Users) : d.Users[i].username = username
    THEN CHOOSE i \in Ids(d.Users) : d.Users[i].username = username
    ELSE None

EmpIdNotFound(d, name, email) == None

\* SELECT id FROM Employees WHERE name = ? AND email = ?: the first such id
EmpIdByNameEmail(d, name, email) ==
  IF \E i \in Ids(d.Employees) : d.Employees[i].name = name /\ d.Employees[i].email = email
    THEN CHOOSE i \in Ids(d.Employees) :
           /\ d.Employees[i].name = name /\ d.Employees[i].email = email
           /\ \A j \in 1..(i - 1) :
                ~(d.Employees[j].name = name /\ d.Employees[j].email = email)
    ELSE None

\* models.create_employee
create_employee(d, name, email, department, security_level) ==
  [d EXCEPT !.Employees = Append(@, [name |-> name, email |-> email,
                                     department |-> department,
                                     security_level |-> security_level])]

\* models.create_user: no emp_id column is given, so it is NULL; username is UNIQUE
create_user(d, username, password_hash, security_level) ==
  IF UserIdByName(d, username) # None THEN d
  ELSE [d EXCEPT !.Users = Append(@, [username |-> username,
                                      password_hash |-> password_hash,
                                      security_level |-> security_level,
                                      emp_id |-> None])]

\* the INSERT INTO EmpPayRaise of models.create_payraise, under foreign-key setting fk
InsertPayRaise(d, fk, emp_id, user_id, date_blob, amt_blob, comments_blob) ==
  IF PayRaiseFkOk(d, fk, emp_id, user_id)
    THEN [d EXCEPT !.EmpPayRaise =
            Append(@, [emp_id |-> emp_id, user_id |-> user_id,
                       payraise_date_encrypted |-> date_blob,
                       raiseamt_encrypted |-> amt_blob,
                       comments_encrypted |-> comments_blob])]
    ELSE d

\* models.create_payraise with the key k of get_fernet(); raise_amt is in hundredths;
\* comments <<>> stands for both None and the empty string, which the code treats alike
create_payraise(d, k, user_id, emp_id, date_str, raise_amt, comments) ==
  InsertPayRaise(d, ModelsForeignKeys, emp_id, user_id,
                 EncryptText(k, Strip(date_str)),
                 EncryptText(k, Format2f(raise_amt)),
                 IF comments # <<>> THEN EncryptText(k, Strip(comments)) ELSE NullBlob)

\* the dict built from one joined row: its decrypted fields, ok FALSE when one fails
DecryptedRow(d, k, i) ==
  LET pr == d.EmpPayRaise[i]
      date == DecryptText(k, pr.payraise_date_encrypted)
      amt == DecryptText(k, pr.raiseamt_encrypted)
      com == IF pr.comments_encrypted # NullBlob
               THEN DecryptText(k, pr.comments_encrypted)
               ELSE [ok |-> TRUE, text |-> <<>>]
  IN [ok |-> date.ok /\ amt.ok /\ com.ok,
      id |-> i,
      user_id |-> pr.user_id,
      employee_name |-> d.Employees[pr.emp_id].name,
      payraise_date |-> date.text,
      raise_amount |-> amt.text,
      comments |-> com.text]

\* JOIN Employees e ON e.id = pr.emp_id: rows without their employee drop out
Joined(d, i) == d.EmpPayRaise[i].emp_id \in Ids(d.Employees)

\* rows i, i-1, ..., 1 of EmpPayRaise for user_id: ORDER BY pr.id DESC
RECURSIVE ForUserDesc(_, _, _, _)
ForUserDesc(d, k, user_id, i) ==
  IF i = 0 THEN <<>>
  ELSE IF d.EmpPayRaise[i].user_id = user_id /\ Joined(d, i)
    THEN <<DecryptedRow(d, k, i)>> \o ForUserDesc(d, k, user_id, i - 1)
    ELSE ForUserDesc(d, k, user_id, i - 1)

RECURSIVE AllDesc(_, _, _)
AllDesc(d, k, i) ==
  IF i = 0 THEN <<>>
  ELSE IF Joined(d, i)
    THEN <<DecryptedRow(d, k, i)>> \o AllDesc(d, k, i - 1)
    ELSE AllDesc(d, k, i - 1)

RECURSIVE Reverse(_)
Reverse(s) == IF s = <<>> THEN <<>> ELSE Reverse(Tail(s)) \o <<Head(s)>>

\* the loop over cur.fetchall(): the first failing decrypt_text raises out of the
\* function, so there is a result list only when every row decrypts
Listing(rows) ==
  IF \A i \in 1..Len(rows) : rows[i].ok
    THEN [ok |-> TRUE, rows |-> rows]
    ELSE [ok |-> FALSE, rows |-> <<>>]

\* the keys of the dicts of get_payraises_for_user
UserEntries(l) ==
  [ok |-> l.ok,
   rows |-> [i \in 1..Len(l.rows) |->
               [employee_name |-> l.rows[i].employee_name,
                payraise_date |-> l.rows[i].payraise_date,
                raise_amount |-> l.rows[i].raise_amount,
                comments |-> l.rows[i].comments]]]

\* the keys of the dicts of get_all_payraises
AllEntries(l) ==
  [ok |-> l.ok,
   rows |-> [i \in 1..Len(l.rows) |->
               [id |-> l.rows[i].id,
                employee_name |-> l.rows[i].employee_name,
                user_id |-> l.rows[i].user_id,
                payraise_date |-> l.rows[i].payraise_date,
                raise_amount |-> l.rows[i].raise_amount,
                comments |-> l.rows[i].comments]]]

get_payraises_for_user_asc(d, k, user_id) ==
  UserEntries(Listing(Reverse(ForUserDesc(d, k, user_id, Len(d.EmpPayRaise)))))

\* models.get_payraises_for_user with the key k of get_fernet()
get_payraises_for_user(d, k, user_id) ==
  UserEntries(Listing(ForUserDesc(d, k, user_id, Len(d.EmpPayRaise))))

\* models.get_all_payraises with the key k of get_fernet()
get_all_payraises(d, k) ==
  AllEntries(Listing(AllDesc(d, k, Len(d.EmpPayRaise))))

\* models.get_employees (ORDER BY name is left out: no claim reads the order)
get_employees(d) == d.Employees

\* init_db.initialize_database: the seed list
SeedEntries ==
  << [username |-> "admin1", password |-> "AdminPass1", security_level |-> 1,
      employee |-> [name |-> "Alice Admin", email |-> "alice.admin@example.com",
                    department |-> "Executive", security_level |-> 1]],
     [username |-> "manager", password |-> "Manager1", security_level |-> 2,
      employee |-> [name |-> "Bob Manager", email |-> "bob.manager@example.com",
                    department |-> "Operations", security_level |-> 2]],
     [username |-> "staff", password |-> "Staff1", security_level |-> 3,
      employee |-> [name |-> "Cara Staff", email |-> "cara.staff@example.com",
                    department |-> "Support", security_level |-> 3]] >>

\* one pass of the seeding loop, init_db.py lines 128-178
SeedEntry(d, entry) ==
  LET emp == entry.employee
      found == EmpIdByNameEmail(d, emp.name, emp.email)
      d1 == IF found # None THEN d ELSE [d EXCEPT !.Employees = Append(@, emp)]
      emp_id == IF found # None THEN found ELSE Len(d1.Employees)
      urow == UserIdByName(d1, entry.username)
      d2 == IF urow # None THEN d1
            ELSE [d1 EXCEPT !.Users =
                    Append(@, [username |-> entry.username,
                               password_hash |-> generate_password_hash(entry.password),
                               security_level |-> entry.security_level,
                               emp_id |-> emp_id])]
      user_id == IF urow # None THEN urow ELSE Len(d2.Users)
  IN [d2 EXCEPT !.Users[user_id].emp_id = emp_id]

RECURSIVE SeedFrom(_, _)
SeedFrom(d, i) ==
  IF i > Len(SeedEntries) THEN d ELSE SeedFrom(SeedEntry(d, SeedEntries[i]), i + 1)

SeedDate == <<"2025-01-01">>
SeedAmount == <<"1250.00">>
SeedComment == <<"Annual merit increase">>

\* init_db.initialize_database with the result f of get_fernet(): the seeding loop, then
\* the example pay raise of admin1 when admin1 has none; without a key encrypt_text
\* raises after the loop's commits
initialize_database(d, f) ==
  LET d1 == SeedFrom(d, 1)
      admin_user_id == UserIdByName(d1, "admin1")
      admin_emp_id == d1.Users[admin_user_id].emp_id
      has_raises == \E i \in Ids(d1.EmpPayRaise) : d1.EmpPayRaise[i].user_id = admin_user_id
  IN IF has_raises \/ ~f.ok THEN d1
     ELSE InsertPayRaise(d1, InitDbForeignKeys, admin_emp_id, admin_user_id,
                         EncryptText(f.key, SeedDate),
                         EncryptText(f.key, SeedAmount),
                         EncryptText(f.key, SeedComment))

(* --------------------- key resolution by processes --------------------- *)
KeyInit ==
  /\ db = EmptyDb
  /\ schema = FALSE
  /\ resp = NoResp
  /\ session = <<>>
  /\ submitted = <<>>
  /\ environ \in [Procs -> {None} \cup EnvKeys]
  /\ FERNET_INSTANCE = [p \in Procs |-> None]
  /\ keyfile \in {NoFile, [exists |-> TRUE, content |-> NumEnvKeys + 1, mode |-> OwnerOnly]}
  /\ pc = [p \in Procs |-> "idle"]
  /\ key_bytes = [p \in Procs |-> None]
  /\ nGenerated = 0
  /\ written = {}
  /\ res = [p \in Procs |-> NoRes]
  /\ lastUse = [p \in Procs |-> NoUse]
  /\ envChanges = 0

KeyNext ==
  /\ \E p \in Procs :
       \/ EnsureStart(p)
       \/ EnsureWrite(p)
       \/ EnsureChmod(p)
       \/ UseCipher(p)
       \/ \E k \in {None} \cup EnvKeys : SetEnviron(p, k)
  /\ UNCHANGED <<dbVars, resp, webVars>>

SpecKey == KeyInit /\ [][KeyNext]_vars

(* ------------------- the record store, called directly ----------------- *)
MaxRows == 2
MaxNewEmployees == 1

\* the process that serves the application
AppProc == 1

\* an id no row has
BadId == Len(SeedEntries) + 1

\* (user_id, emp_id) passed to create_payraise: existing rows, and one id without a row
IdArgs == {<<1, 1>>, <<2, 2>>, <<1, BadId>>, <<BadId, 1>>}

DateArgs == {<<"2025-01-01", SP>>}
AmountArgs == {1250}
CommentArgs == {<<>>, <<SP, "ok">>}

\* the key-related effect of a call that reaches get_fernet() in process p
Fernet(p) == GetFernet(FERNET_INSTANCE[p], environ[p], keyfile)

CacheFernet(p, called) ==
  /\ FERNET_INSTANCE' = [FERNET_INSTANCE EXCEPT ![p] = IF called THEN Fernet(p).key ELSE @]
  /\ UNCHANGED <<environ, keyfile, pc, key_bytes, nGenerated, written, res, lastUse, envChanges>>

\* the application process is started anew, with FERNET_KEY set or unset in its
\* environment: the module-level cache of utils.py starts empty
Restart(p, k) ==
  /\ pc[p] = "idle"
  /\ FERNET_INSTANCE[p] # None
  /\ FERNET_INSTANCE' = [FERNET_INSTANCE EXCEPT ![p] = None]
  /\ environ' = [environ EXCEPT ![p] = k]
  /\ session' = <<>>
  /\ resp' = [op |-> "restart"]
  /\ UNCHANGED <<keyfile, pc, key_bytes, nGenerated, written, res, lastUse, envChanges,
                 dbVars, submitted>>

\* initialize_database(db_path), called by process p
InitializeDatabase(p) ==
  /\ pc[p] = "idle"
  /\ LET seeded == SeedFrom(db, 1)
         admin == UserIdByName(seeded, "admin1")
         has_raises == \E i \in Ids(seeded.EmpPayRaise) : seeded.EmpPayRaise[i].user_id = admin
     IN /\ db' = initialize_database(db, Fernet(p))
        /\ schema' = TRUE
        /\ CacheFernet(p, ~has_raises)
        /\ resp' = [op |-> "initialize_database",
                    error |-> IF ~has_raises /\ ~Fernet(p).ok THEN "RuntimeError" ELSE "none"]
  /\ UNCHANGED webVars

\* models.create_payraise called by process p with any ids
CreatePayraise(p, user_id, emp_id, date_str, raise_amt, comments) ==
  /\ pc[p] = "idle"
  /\ Len(db.EmpPayRaise) < MaxRows
  /\ CacheFernet(p, TRUE)
  /\ LET d == create_payraise(db, Fernet(p).key, user_id, emp_id, date_str, raise_amt, comments)
         error == IF ~Fernet(p).ok THEN "RuntimeError"
                  ELSE IF ~schema THEN "OperationalError"
                  ELSE IF d = db THEN "IntegrityError"
                  ELSE "none"
     IN /\ db' = IF error = "none" THEN d ELSE db
        /\ resp' = [op |-> "create_payraise", error |-> error]
  /\ UNCHANGED <<schema, webVars>>

\* the employee passed to create_employee: a namesake of a seeded one
EmployeeArgs ==
  {[name |-> "Alice Admin", email |-> "alice.admin@example.com", department |-> "IT",
    security_level |-> 2]}

\* models.create_employee called by process p
CreateEmployee(p, e) ==
  /\ pc[p] = "idle"
  /\ Len(db.Employees) < Len(SeedEntries) + MaxNewEmployees
  /\ db' = IF schema
             THEN create_employee(db, e.name, e.email, e.department, e.security_level)
             ELSE db
  /\ resp' = [op |-> "create_employee",
              error |-> IF schema THEN "none" ELSE "OperationalError"]
  /\ CacheFernet(p, FALSE)
  /\ UNCHANGED <<schema, webVars>>

\* models.get_payraises_for_user called by process p
GetPayraisesForUser(p, user_id) ==
  /\ pc[p] = "idle"
  /\ schema
  /\ LET called == \E i \in Ids(db.EmpPayRaise) :
                     db.EmpPayRaise[i].user_id = user_id /\ Joined(db, i)
         r == get_payraises_for_user(db, Fernet(p).key, user_id)
     IN /\ CacheFernet(p, called)
        /\ resp' = [op |-> "get_payraises_for_user", user_id |-> user_id,
                    ok |-> r.ok, n |-> Len(r.rows)]
  /\ UNCHANGED <<dbVars, webVars>>

\* models.get_all_payraises called by process p
GetAllPayraises(p) ==
  /\ pc[p] = "idle"
  /\ schema
  /\ LET called == \E i \in Ids(db.EmpPayRaise) : Joined(db, i)
         r == get_all_payraises(db, Fernet(p).key)
     IN /\ CacheFernet(p, called)
        /\ resp' = [op |-> "get_all_payraises", ok |-> r.ok, n |-> Len(r.rows)]
  /\ UNCHANGED <<dbVars, webVars>>

\* app.db does not exist yet; ensure_fernet_key has generated key.key
StoreInit ==
  /\ db = EmptyDb
  /\ schema = FALSE
  /\ resp = NoResp
  /\ session = <<>>
  /\ submitted = <<>>
  /\ environ = [p \in Procs |-> None]
  /\ FERNET_INSTANCE = [p \in Procs |-> None]
  /\ keyfile = Chmod600(WriteBytes(NoFile, GenerateKey(1)))
  /\ pc = [p \in Procs |-> "idle"]
  /\ key_bytes = [p \in Procs |-> None]
  /\ nGenerated = 1
  /\ written = {GenerateKey(1)}
  /\ res = [p \in Procs |-> NoRes]
  /\ lastUse = [p \in Procs |-> NoUse]
  /\ envChanges = 0

StoreNext ==
  \/ \E k \in {None} \cup EnvKeys : Restart(AppProc, k)
  \/ InitializeDatabase(AppProc)
  \/ \E ids \in IdArgs, date_str \in DateArgs, raise_amt \in AmountArgs,
        comments \in CommentArgs :
       CreatePayraise(AppProc, ids[1], ids[2], date_str, raise_amt, comments)
  \/ \E e \in EmployeeArgs : CreateEmployee(AppProc, e)
  \/ \E user_id \in {1, 2, BadId} : GetPayraisesForUser(AppProc, user_id)
  \/ GetAllPayraises(AppProc)

SpecStore == StoreInit /\ [][StoreNext]_vars

(* ----------------------- the field cipher, called directly ------------- *)
MaxTextLen == 3

\* an optional argument: None, or a str
Nothing == [some |-> FALSE]
Some(v) == [some |-> TRUE, v |-> v]

\* the segments texts are made of: whitespace and a letter
Alphabet == {SP, "a"}

Texts == UNION {[1..n -> Alphabet] : n \in 0..MaxTextLen}

\* utils.encrypt_text(plain) with the result f of get_fernet(); None is refused before
\* get_fernet() is called
encrypt_text(f, plain) ==
  IF ~plain.some THEN [error |-> "ValueError", token |-> NullBlob]
  ELSE IF ~f.ok THEN [error |-> "RuntimeError", token |-> NullBlob]
  ELSE [error |-> "none", token |-> EncryptText(f.key, plain.v)]

\* utils.decrypt_text(cipher) with the result f of get_fernet(); NullBlob stands for None
decrypt_text(f, cipher) ==
  IF cipher = NullBlob THEN [error |-> "ValueError", text |-> <<>>]
  ELSE IF ~f.ok THEN [error |-> "RuntimeError", text |-> <<>>]
  ELSE [error |-> IF DecryptText(f.key, cipher).ok THEN "none" ELSE "InvalidToken",
        text |-> DecryptText(f.key, cipher).text]

\* process p calls encrypt_text(plain)
EncryptTextCall(p, plain) ==
  /\ pc[p] = "idle"
  /\ CacheFernet(p, plain.some)
  /\ resp' = [op |-> "encrypt_text", arg |-> plain,
              error |-> encrypt_text(Fernet(p), plain).error,
              token |-> encrypt_text(Fernet(p), plain).token]
  /\ UNCHANGED <<dbVars, webVars>>

\* process p calls decrypt_text on what its last encrypt_text returned (None when that
\* call failed)
DecryptTextCall(p) ==
  /\ pc[p] = "idle"
  /\ resp.op = "encrypt_text"
  /\ CacheFernet(p, resp.token # NullBlob)
  /\ resp' = [op |-> "decrypt_text",
              of |-> IF resp.error = "none" THEN resp.arg ELSE Nothing,
              error |-> decrypt_text(Fernet(p), resp.token).error,
              text |-> decrypt_text(Fernet(p), resp.token).text]
  /\ UNCHANGED <<dbVars, webVars>>

\* a process that has not resolved its key yet, with or without FERNET_KEY and key.key
CipherInit ==
  /\ db = EmptyDb
  /\ schema = FALSE
  /\ resp = NoResp
  /\ session = <<>>
  /\ submitted = <<>>
  /\ environ \in [Procs -> {None} \cup EnvKeys]
  /\ FERNET_INSTANCE = [p \in Procs |-> None]
  /\ keyfile \in {NoFile, Chmod600(WriteBytes(NoFile, GenerateKey(1)))}
  /\ pc = [p \in Procs |-> "idle"]
  /\ key_bytes = [p \in Procs |-> None]
  /\ nGenerated = IF keyfile.exists THEN 1 ELSE 0
  /\ written = IF keyfile.exists THEN {GenerateKey(1)} ELSE {}
  /\ res = [p \in Procs |-> NoRes]
  /\ lastUse = [p \in Procs |-> NoUse]
  /\ envChanges = 0

CipherNext ==
  \/ \E plain \in {Nothing} \cup {Some(x) : x \in Texts} : EncryptTextCall(AppProc, plain)
  \/ DecryptTextCall(AppProc)
  \/ \E k \in {None} \cup EnvKeys :
       SetEnviron(AppProc, k) /\ UNCHANGED <<dbVars, resp, webVars>>

SpecCipher == CipherInit /\ [][CipherNext]_vars

(* --------------------------- the web application ----------------------- *)
MaxPayRaises == 2
MaxNewUsers == 1

\* session.get(key)
SessionGet(sess, key) == IF key \in DOMAIN sess THEN sess[key] ELSE None

LoginSessionNoLevel(user_id, row) ==
  ("user_id" :> user_id) @@ ("emp_id" :> row.emp_id)

\* app.login, lines 100-105: the session of a user who has logged in
LoginSession(user_id, row) ==
  ("user_id" :> user_id) @@ ("security_level" :> row.security_level)
    @@ ("emp_id" :> row.emp_id)

\* app.login_required: whether the wrapped view is called
login_required(sess) == "user_id" \in DOMAIN sess

\* app.requires_security_level(min_level): whether the wrapped view is called
requires_security_level(min_level, sess) ==
  LET security_level == SessionGet(sess, "security_level")
  IN ~(security_level = None \/ security_level < min_level)

\* app.page_not_found, the handler of unknown routes; the guards answer the same way
NotFound == [status |-> 404, flash |-> <<"Page not found">>, page |-> "error.html"]

LoginRedirect ==
  [status |-> 302, flash |-> <<"Please log in to continue.">>, page |-> "login"]

\* a response: the route, the session's level when the request came, what was sent,
\* whether every access check let the request through, and the use made of app.db
Response(op, out, granted, store) ==
  [op |-> op, level |-> SessionGet(session, "security_level"),
   status |-> out.status, flash |-> out.flash, page |-> out.page,
   granted |-> granted, store |-> store]

Denied(op, out) == Response(op, out, FALSE, "none")

\* a denial, with the check that decided it: the decorator, or the view's own test
DeniedBy(op, out, check) == Denied(op, out) @@ [check |-> check]

\* what the request to /add_payraise carried
PayRaiseRequest(method, payraise_date, raise_amount) ==
  [request |-> [method |-> method, payraise_date |-> payraise_date,
                raise_amount |-> raise_amount]]

KeyUnchanged ==
  UNCHANGED <<environ, keyfile, pc, key_bytes, nGenerated, written, res, lastUse, envChanges>>

NoStoreUse == UNCHANGED <<dbVars, FERNET_INSTANCE>> /\ KeyUnchanged

\* forms.LoginForm.from_mapping: the messages for missing fields
LoginErrors(username, password) ==
  (IF username = "" THEN <<"Username is required.">> ELSE <<>>)
    \o (IF password = "" THEN <<"Password is required.">> ELSE <<>>)

\* forms.PayRaiseForm.from_mapping: the messages for invalid fields
PayRaiseErrors(payraise_date, raise_amount) ==
  (IF ~is_valid_date(Strip(payraise_date))
     THEN <<"PayRaiseDate must be a valid date (YYYY-MM-DD).">> ELSE <<>>)
    \o (IF ~is_positive_number(Strip(raise_amount))
          THEN <<"RaiseAmt must be a positive number.">> ELSE <<>>)

\* int(security_level_raw) of the values the model submits; 0 stands for ValueError
IntOf(raw) ==
  CASE raw = "1" -> 1 [] raw = "2" -> 2 [] raw = "3" -> 3 [] raw = "9" -> 9 [] OTHER -> 0

\* forms.EmployeeForm.from_mapping: the messages for invalid fields
EmployeeErrors(f) ==
  (IF f.name = "" THEN <<"Employee name is required.">> ELSE <<>>)
    \o (IF f.security_level = "" THEN <<"Security level is required.">>
        ELSE IF IntOf(f.security_level) = 0 THEN <<"Security level must be a number.">>
        ELSE IF IntOf(f.security_level) \notin {1, 2, 3}
          THEN <<"Security level must be 1, 2, or 3.">>
        ELSE <<>>)
    \o (IF f.department = "" THEN <<"Department is required.">> ELSE <<>>)

\* POST /login
Login(username, password) ==
  /\ LET user_id == UserIdByName(db, username) IN
       IF "user_id" \in DOMAIN session
         THEN /\ resp' = Response("login", [status |-> 302, flash |-> <<>>, page |-> "home"],
                                  TRUE, "none")
              /\ UNCHANGED session
       ELSE IF LoginErrors(username, password) # <<>>
         THEN /\ resp' = Response("login", [status |-> 200,
                                  flash |-> LoginErrors(username, password),
                                  page |-> "login.html"], TRUE, "none")
              /\ UNCHANGED session
       ELSE IF user_id # None /\ check_password_hash(db.Users[user_id].password_hash, password)
         THEN /\ session' = LoginSession(user_id, db.Users[user_id])
              /\ resp' = Response("login", [status |-> 302,
                                  flash |-> <<"Logged in successfully.">>,
                                  page |-> "home"], TRUE, "read")
       ELSE /\ resp' = Response("login", [status |-> 200,
                                  flash |-> <<"invalid username and/or password!">>,
                                  page |-> "login.html"], TRUE, "read")
            /\ UNCHANGED session
  /\ NoStoreUse
  /\ UNCHANGED submitted

\* GET /logout
Logout ==
  /\ session' = <<>>
  /\ resp' = Response("logout", [status |-> 302, flash |-> <<"You have been logged out.">>,
                                 page |-> "login"], TRUE, "none")
  /\ NoStoreUse
  /\ UNCHANGED submitted

\* GET /home and GET /result: login_required, then the template
PlainPage(op) ==
  /\ resp' = IF ~login_required(session) THEN Denied(op, LoginRedirect)
             ELSE Response(op, [status |-> 200, flash |-> <<>>, page |-> op], TRUE, "none")
  /\ NoStoreUse
  /\ UNCHANGED webVars

\* a route that does not exist
UnknownRoute ==
  /\ resp' = Response("unknown", NotFound, FALSE, "none")
  /\ NoStoreUse
  /\ UNCHANGED webVars

\* GET /show_payraises
ShowPayraises ==
  /\ IF ~login_required(session)
       THEN /\ resp' = Denied("show_payraises", LoginRedirect)
            /\ UNCHANGED FERNET_INSTANCE
       ELSE LET user_id == session["user_id"]
                called == \E i \in Ids(db.EmpPayRaise) :
                            db.EmpPayRaise[i].user_id = user_id /\ Joined(db, i)
                r == get_payraises_for_user(db, Fernet(AppProc).key, user_id)
            IN /\ FERNET_INSTANCE' = [FERNET_INSTANCE EXCEPT ![AppProc] =
                                        IF called THEN Fernet(AppProc).key ELSE @]
               /\ resp' = [Response("show_payraises",
                             [status |-> IF r.ok THEN 200 ELSE 500, flash |-> <<>>,
                              page |-> "show_payraises.html"], TRUE, "read")
                           EXCEPT !.op = "show_payraises"] @@ [user_id |-> user_id, rows |-> r.rows]
  /\ KeyUnchanged
  /\ UNCHANGED <<dbVars, webVars>>

\* /add_payraise, GET or POST with the form's fields
AddPayraise(method, payraise_date, raise_amount, comments) ==
  /\ LET req == PayRaiseRequest(method, payraise_date, raise_amount) IN
     IF ~login_required(session)
       THEN /\ resp' = Denied("add_payraise", LoginRedirect) @@ req
            /\ UNCHANGED <<db, FERNET_INSTANCE, submitted>>
     ELSE IF method = "GET"
       THEN /\ resp' = Response("add_payraise", [status |-> 200, flash |-> <<>>,
                                page |-> "add_payraise.html"], TRUE, "none") @@ req
            /\ UNCHANGED <<db, FERNET_INSTANCE, submitted>>
     ELSE IF PayRaiseErrors(payraise_date, raise_amount) # <<>>
       THEN /\ resp' = Response("add_payraise", [status |-> 302,
                                flash |-> PayRaiseErrors(payraise_date, raise_amount)
                                            \o <<"Record not added due to input errors.">>,
                                page |-> "result"], TRUE, "none") @@ req
            /\ UNCHANGED <<db, FERNET_INSTANCE, submitted>>
     ELSE IF SessionGet(session, "emp_id") = None
       THEN /\ resp' = Denied("add_payraise", NotFound) @@ req
            /\ UNCHANGED <<db, FERNET_INSTANCE, submitted>>
     ELSE LET f == Fernet(AppProc)
              d == create_payraise(db, f.key, session["user_id"], session["emp_id"],
                                   Strip(payraise_date), Float(Strip(raise_amount)).v,
                                   Strip(comments))
              done == f.ok /\ d # db
          IN /\ FERNET_INSTANCE' = [FERNET_INSTANCE EXCEPT ![AppProc] = f.key]
             /\ db' = IF done THEN d ELSE db
             /\ submitted' = IF done
                               THEN Append(submitted, [user_id |-> session["user_id"],
                                                       payraise_date |-> payraise_date,
                                                       raise_amount |-> raise_amount,
                                                       comments |-> comments])
                               ELSE submitted
             /\ resp' = IF done
                          THEN Response("add_payraise", [status |-> 302,
                                 flash |-> <<"Record added">>, page |-> "result"],
                                 TRUE, "write") @@ req
                          ELSE Response("add_payraise", [status |-> 500, flash |-> <<>>,
                                 page |-> "error"], TRUE, "none") @@ req
  /\ Len(submitted) < MaxPayRaises
  /\ KeyUnchanged
  /\ UNCHANGED <<schema, session>>

\* /add_employee, GET or POST with the form f
AddEmployee(method, f) ==
  /\ IF ~login_required(session)
       THEN /\ resp' = DeniedBy("add_employee", LoginRedirect, "login_required")
            /\ UNCHANGED db
     ELSE IF ~requires_security_level(1, session)
       THEN /\ resp' = DeniedBy("add_employee", NotFound, "requires_security_level")
            /\ UNCHANGED db
     ELSE IF method = "GET"
       THEN /\ resp' = Response("add_employee", [status |-> 200, flash |-> <<>>,
                                page |-> "add_employee.html"], TRUE, "none")
            /\ UNCHANGED db
     ELSE IF EmployeeErrors(f) # <<>>
       THEN /\ resp' = Response("add_employee", [status |-> 302,
                                flash |-> EmployeeErrors(f)
                                            \o <<"Employee not added due to input errors.">>,
                                page |-> "result"], TRUE, "none")
            /\ UNCHANGED db
     ELSE /\ db' = create_employee(db, f.name, f.email, f.department, IntOf(f.security_level))
          /\ resp' = Response("add_employee", [status |-> 302,
                              flash |-> <<"Employee added successfully.">>,
                              page |-> "result"], TRUE, "write")
  /\ Len(db.Employees) < Len(SeedEntries) + MaxNewEmployees
  /\ KeyUnchanged
  /\ UNCHANGED <<schema, FERNET_INSTANCE, webVars>>

\* GET /list_employees
ListEmployees ==
  /\ resp' = IF ~login_required(session)
               THEN DeniedBy("list_employees", LoginRedirect, "login_required")
             ELSE IF ~requires_security_level(1, session)
               THEN DeniedBy("list_employees", NotFound, "requires_security_level")
             ELSE IF SessionGet(session, "security_level") \notin {1, 2}
               THEN DeniedBy("list_employees", NotFound, "view")
             ELSE Response("list_employees", [status |-> 200, flash |-> <<>>,
                           page |-> "list_employees.html"], TRUE, "read")
                    @@ [rows |-> get_employees(db)]
  /\ NoStoreUse
  /\ UNCHANGED webVars

\* GET /list_payraises
ListPayraises ==
  /\ IF ~login_required(session)
       THEN /\ resp' = DeniedBy("list_payraises", LoginRedirect, "login_required")
            /\ UNCHANGED FERNET_INSTANCE
     ELSE IF ~requires_security_level(2, session)
       THEN /\ resp' = DeniedBy("list_payraises", NotFound, "requires_security_level")
            /\ UNCHANGED FERNET_INSTANCE
     ELSE IF SessionGet(session, "security_level") # 2
       THEN /\ resp' = DeniedBy("list_payraises", NotFound, "view")
            /\ UNCHANGED FERNET_INSTANCE
     ELSE LET called == \E i \in Ids(db.EmpPayRaise) : Joined(db, i)
              r == get_all_payraises(db, Fernet(AppProc).key)
          IN /\ FERNET_INSTANCE' = [FERNET_INSTANCE EXCEPT ![AppProc] =
                                      IF called THEN Fernet(AppProc).key ELSE @]
             /\ resp' = Response("list_payraises",
                          [status |-> IF r.ok THEN 200 ELSE 500, flash |-> <<>>,
                           page |-> "list_payraises.html"], TRUE, "read")
                          @@ [rows |-> r.rows]
  /\ KeyUnchanged
  /\ UNCHANGED <<dbVars, webVars>>

\* models.create_user, called for a new account; app.db and the key are all it touches
CreateUser(username, password, security_level) ==
  /\ Len(db.Users) < Len(SeedEntries) + MaxNewUsers
  /\ db' = create_user(db, username, generate_password_hash(password), security_level)
  /\ resp' = [op |-> "create_user",
              error |-> IF UserIdByName(db, username) # None THEN "IntegrityError" ELSE "none"]
  /\ UNCHANGED <<schema, FERNET_INSTANCE, webVars>>
  /\ KeyUnchanged

\* username and password typed into the login form: the right ones of each account, a
\* wrong password, an unknown name, and nothing
Credentials ==
  {<<"admin1", "AdminPass1">>, <<"manager", "Manager1">>, <<"staff", "Staff1">>,
   <<"newuser", "NewPass1">>, <<"staff", "Manager1">>, <<"nobody", "Staff1">>,
   <<"", "">>}
NewUsers == {"newuser", "staff"}
NewUserLevels == {1, 3}

\* the fields posted to /add_payraise
PayRaiseForms ==
  {[payraise_date |-> <<"2025-01-01", SP>>, raise_amount |-> <<"12.5">>,
    comments |-> <<SP, "ok", SP>>],
   [payraise_date |-> <<"2025-01-01", SP>>, raise_amount |-> <<"0">>, comments |-> <<>>],
   [payraise_date |-> <<"2025-02-30">>, raise_amount |-> <<"12.5">>, comments |-> <<>>],
   [payraise_date |-> <<"2025-02-30">>, raise_amount |-> <<"0">>, comments |-> <<>>],
   [payraise_date |-> <<"2025-1-5">>, raise_amount |-> <<"12.5">>, comments |-> <<>>],
   [payraise_date |-> <<"2025-1-5">>, raise_amount |-> <<"0">>, comments |-> <<>>]}

\* a GET carries no form: from_mapping({}) reads every field as ""
NoPayRaiseForm == [payraise_date |-> <<>>, raise_amount |-> <<>>, comments |-> <<>>]
NoEmployeeForm == [name |-> "", email |-> "", department |-> "", security_level |-> ""]

EmployeeForms ==
  {[name |-> "Dan New", email |-> "dan@example.com", department |-> "IT",
    security_level |-> "3"],
   [name |-> "", email |-> "", department |-> "IT", security_level |-> "9"]}

\* init_db.py has run in a fresh checkout (key.key generated, app.db seeded) and the
\* application process has started without FERNET_KEY
Init ==
  /\ db = initialize_database(EmptyDb, [ok |-> TRUE, key |-> GenerateKey(1), path |-> "env"])
  /\ schema = TRUE
  /\ resp = NoResp
  /\ session = <<>>
  /\ submitted = <<>>
  /\ environ = [p \in Procs |-> None]
  /\ FERNET_INSTANCE = [p \in Procs |-> None]
  /\ keyfile = Chmod600(WriteBytes(NoFile, GenerateKey(1)))
  /\ pc = [p \in Procs |-> "idle"]
  /\ key_bytes = [p \in Procs |-> None]
  /\ nGenerated = 1
  /\ written = {GenerateKey(1)}
  /\ res = [p \in Procs |-> NoRes]
  /\ lastUse = [p \in Procs |-> NoUse]
  /\ envChanges = 0

Next ==
  \/ \E c \in Credentials : Login(c[1], c[2])
  \/ Logout
  \/ \E op \in {"home", "result"} : PlainPage(op)
  \/ UnknownRoute
  \/ ShowPayraises
  \/ \E f \in PayRaiseForms :
       AddPayraise("POST", f.payraise_date, f.raise_amount, f.comments)
  \/ AddPayraise("GET", NoPayRaiseForm.payraise_date, NoPayRaiseForm.raise_amount,
                 NoPayRaiseForm.comments)
  \/ \E f \in EmployeeForms : AddEmployee("POST", f)
  \/ AddEmployee("GET", NoEmployeeForm)
  \/ ListEmployees
  \/ ListPayraises
  \/ \E username \in NewUsers, security_level \in NewUserLevels :
       CreateUser(username, "NewPass1", security_level)

Spec == Init /\ [][Next]_vars

(* ------------------------- claims: key manager ------------------------- *)

\* C4 (as claimed): under every interleaving of first-time key resolutions at most one
\* generated key is ever written to key.key, and every process that has finished
\* ensure_fernet_key through the file or the generate branch holds the persisted key.
C4_SingleWinner ==
  /\ Cardinality(written) <= 1
  /\ \A p \in Procs :
       (res[p].fn = "ensure_fernet_key" /\ res[p].path \in {"file", "generated"})
         => res[p].key = keyfile.content

C5_Post(p) ==
  /\ (pc[p] = "idle" /\ environ[p] # None) =>
        (res'[p].path = "env" /\ res'[p].key = environ[p] /\ keyfile' = keyfile)
  /\ (pc[p] = "idle" /\ environ[p] = None /\ keyfile.exists) =>
        (res'[p].path = "file" /\ res'[p].key = keyfile.content /\ keyfile' = keyfile)
  /\ (pc[p] = "idle" /\ environ[p] = None /\ ~keyfile.exists) =>
        \/ /\ res'[p].fn = "get_fernet"
           /\ res'[p].path = "RuntimeError"
           /\ res'[p].key = None
           /\ FERNET_INSTANCE'[p] = None
           /\ keyfile' = keyfile
           /\ nGenerated' = nGenerated
        \/ /\ res'[p].fn = "ensure_fernet_key"
           /\ res'[p].path = "pending"
           /\ pc'[p] = "write"
           /\ IsGenerated(key_bytes'[p])
  /\ pc[p] = "write" =>
        (keyfile'.exists /\ keyfile'.content = key_bytes[p] /\ pc'[p] = "chmod")
  /\ pc[p] = "chmod" =>
        /\ res'[p].fn = "ensure_fernet_key"
        /\ res'[p].path = "generated"
        /\ res'[p].key = key_bytes[p]
        /\ IsGenerated(res'[p].key)
        /\ res'[p].key \in written
        /\ keyfile'.mode = OwnerOnly
        /\ environ'[p] = res'[p].key

C10_CachedKeyStable ==
  [][\A p \in Procs :
       FERNET_INSTANCE[p] # None =>
         /\ FERNET_INSTANCE'[p] = FERNET_INSTANCE[p]
         /\ lastUse'[p] # lastUse[p] => lastUse'[p].key = FERNET_INSTANCE[p]]_vars

\* C10 witness: a process used its cached key while FERNET_KEY held another key, and
\* key.key holds yet another content.
C10_Witness ==
  \E p \in Procs :
    /\ lastUse[p].envDiffers
    /\ lastUse[p].key = FERNET_INSTANCE[p]
    /\ keyfile.exists
    /\ keyfile.content # FERNET_INSTANCE[p]

(* ------------------------- claims: record store ------------------------ *)

\* C2 (as claimed): create_payraise with an emp_id or user_id that no row has fails and
\* inserts nothing, so every EmpPayRaise row references an existing Employees row and an
\* existing Users row.
C2_ReferentialIntegrity ==
  \A i \in Ids(db.EmpPayRaise) :
    /\ db.EmpPayRaise[i].emp_id \in Ids(db.Employees)
    /\ db.EmpPayRaise[i].user_id \in Ids(db.Users)

\* the rows a listing of the application process selects: all joined rows, or those of
\* one user
Selected(user_id) ==
  {i \in Ids(db.EmpPayRaise) :
     Joined(db, i) /\ (user_id = None \/ db.EmpPayRaise[i].user_id = user_id)}

Undecryptable(rows) ==
  {i \in rows : ~DecryptedRow(db, FERNET_INSTANCE[AppProc], i).ok}

\* C3 (as claimed): a listing that meets exactly one undecryptable row among other rows
\* does not fail as a whole and still returns the entries of the other rows.
C3_PerRecordFailure ==
  LET rows == IF resp.op = "get_payraises_for_user" THEN Selected(resp.user_id)
              ELSE Selected(None)
  IN (/\ resp.op \in {"get_payraises_for_user", "get_all_payraises"}
      /\ Cardinality(Undecryptable(rows)) = 1
      /\ Cardinality(rows) > 1)
       => (resp.ok /\ resp.n >= Cardinality(rows) - 1)

IsToken(blob) == blob.kind = "fernet" /\ blob.key # None

\* C8: every EmpPayRaise row holds its date and amount as Fernet tokens and its comment
\* as a Fernet token or NULL, never a plain text.
C8_CiphertextAtRest ==
  \A i \in Ids(db.EmpPayRaise) :
    LET pr == db.EmpPayRaise[i] IN
      /\ IsToken(pr.payraise_date_encrypted)
      /\ IsToken(pr.raiseamt_encrypted)
      /\ (pr.comments_encrypted = NullBlob \/ IsToken(pr.comments_encrypted))

\* C8 witness: the seeded row and a row of create_payraise without a comment are stored.
C8_Witness ==
  /\ resp.op = "create_payraise"
  /\ resp.error = "none"
  /\ \E i, j \in Ids(db.EmpPayRaise) :
       /\ db.EmpPayRaise[i].comments_encrypted = NullBlob
       /\ db.EmpPayRaise[j].comments_encrypted.kind = "fernet"
       /\ db.EmpPayRaise[j].comments_encrypted.plain = SeedComment

(* ------------------------ claims: web application ---------------------- *)

\* the access table of the specification, section 4.3
AccessTable(level, op) ==
  CASE op = "add_employee"   -> level \in {1, 2}
    [] op = "list_employees" -> level \in {1, 2}
    [] op = "list_payraises" -> level = 2
    [] op = "add_payraise"   -> level \in {1, 2, 3}

TableOps == {"add_employee", "list_employees", "list_payraises", "add_payraise"}

\* C1 (as claimed): for every session level in {1, 2, 3} and every one of the four
\* operations, a request is let through by the route's checks exactly when the access
\* table allows it; a level-3 session never makes create_employee run.
C1_AccessMatrix ==
  (resp.op \in TableOps /\ resp.level \in {1, 2, 3})
    => (resp.granted <=> AccessTable(resp.level, resp.op))

\* C6 (as claimed): every request to add employee, list employees or list all pay raises
\* that the access policy denies, at level 1, 2, 3 or without a level, is answered like
\* an unknown route: flash "Page not found", error.html, status 404.
C6_UniformNotFound ==
  (/\ resp.op \in {"add_employee", "list_employees", "list_payraises"}
   /\ (resp.level = None \/ ~AccessTable(resp.level, resp.op)))
    => (/\ resp.status = NotFound.status
        /\ resp.flash = NotFound.flash
        /\ resp.page = NotFound.page)

\* C7: a request for one of the four operations made by a session without a
\* security_level is denied, and neither reads nor writes app.db nor touches the cipher.
C7_NoLevelNoAccess ==
  [][(SessionGet(session, "security_level") = None /\ resp'.op \in TableOps /\ resp' # resp)
       => (/\ ~resp'.granted
           /\ resp'.store = "none"
           /\ db' = db
           /\ FERNET_INSTANCE' = FERNET_INSTANCE
           /\ submitted' = submitted)]_vars

\* C7 witness: after a user has logged in, submitted a pay raise and logged out, a POST
\* to /add_payraise was turned away to the login page.
C7_Witness ==
  /\ resp.op = "add_payraise"
  /\ resp.level = None
  /\ ~resp.granted
  /\ resp.page = "login"
  /\ session = <<>>
  /\ Len(submitted) > 0

\* the entry that get_payraises_for_user must return for a submission of user_id
EntryOf(user_id, payraise_date, raise_amount, comments) ==
  [employee_name |-> db.Employees[db.Users[user_id].emp_id].name,
   payraise_date |-> Strip(payraise_date),
   raise_amount |-> Format2f(Float(Strip(raise_amount)).v),
   comments |-> Strip(comments)]

\* the entries of the submissions 1..i of user_id, most recent first
RECURSIVE SubmittedBy(_, _)
SubmittedBy(user_id, i) ==
  IF i = 0 THEN <<>>
  ELSE IF submitted[i].user_id = user_id
    THEN <<EntryOf(user_id, submitted[i].payraise_date, submitted[i].raise_amount,
                   submitted[i].comments)>> \o SubmittedBy(user_id, i - 1)
    ELSE SubmittedBy(user_id, i - 1)

\* the example pay raise that initialize_database stores for admin1
SeededFor(user_id) ==
  IF user_id = UserIdByName(db, "admin1")
    THEN <<EntryOf(user_id, SeedDate, SeedAmount, SeedComment)>>
    ELSE <<>>

\* C9 (as claimed): get_payraises_for_user(u) returns exactly one entry per pay raise
\* that u submitted, none of another user, most recent first, with the submitted date,
\* the amount with two decimals and the comment (or the empty string).
C9_OnlySubmitted ==
  (resp.op = "show_payraises" /\ resp.granted) =>
    (/\ resp.status = 200
     /\ resp.rows = SubmittedBy(resp.user_id, Len(submitted)))

\* C9 (amended): the same, where the listing of admin1 ends with one more entry, the
\* example pay raise seeded by initialize_database; and /show_payraises shows the
\* logged-in user that list.
C9_SubmittedAndSeeded ==
  /\ \A u \in Ids(db.Users) :
       LET r == get_payraises_for_user(db, Fernet(AppProc).key, u)
       IN r.ok /\ r.rows = SubmittedBy(u, Len(submitted)) \o SeededFor(u)
  /\ (resp.op = "show_payraises" /\ resp.granted) =>
       (/\ resp.status = 200
        /\ resp.rows = SubmittedBy(resp.user_id, Len(submitted)) \o SeededFor(resp.user_id))

\* C9 witness: /show_payraises listed two different submissions of a user while app.db
\* also holds a row of another user.
C9_Witness ==
  /\ resp.op = "show_payraises"
  /\ resp.granted
  /\ Len(resp.rows) = 2
  /\ resp.rows[1] # resp.rows[2]
  /\ resp.rows[1].comments = <<"ok">>
  /\ resp.rows[1].raise_amount = <<"12.50">>
  /\ Len(db.EmpPayRaise) = 3

(* -------------------------- claims: field cipher ----------------------- *)

\* C11: for every non-null string x, decrypt_text(encrypt_text(x)) under the same
\* resolved key is x without its leading and trailing whitespace; encrypt_text(None)
\* fails with ValueError and produces no ciphertext.
C11_RoundTrip ==
  /\ (resp.op = "encrypt_text" /\ ~resp.arg.some) =>
        (resp.error = "ValueError" /\ resp.token = NullBlob)
  /\ (resp.op = "encrypt_text" /\ resp.arg.some /\ FERNET_INSTANCE[AppProc] # None) =>
        (resp.error = "none" /\ IsToken(resp.token))
  /\ (resp.op = "decrypt_text" /\ resp.of.some) =>
        (resp.error = "none" /\ resp.text = Strip(resp.of.v))

\* a text with whitespace at both ends and inside has gone through encrypt_text and
\* decrypt_text, after FERNET_KEY was changed in between
C11_Witness ==
  /\ resp.op = "decrypt_text"
  /\ resp.of.some
  /\ Len(resp.of.v) = MaxTextLen
  /\ resp.of.v # Strip(resp.of.v)
  /\ Strip(resp.of.v) # <<>>
  /\ resp.error = "none"
  /\ envChanges > 0

(* ----------------------- claims: pay-raise submission ------------------ *)

\* a valid calendar date written as four, two and two digits, among the texts submitted
IsIsoCalendarDate(s) == Strip(s) \in {<<"2025-01-01">>, <<"2024-02-29">>}

\* a positive decimal number, among the texts submitted
IsPositiveAmount(s) == Strip(s) \in {<<"12.5">>, <<"1250.00">>}

\* the POST to /add_payraise that the last response answers came with a session
SubmittedByUser(r) ==
  /\ r.op = "add_payraise"
  /\ r.request.method = "POST"
  /\ "user_id" \in DOMAIN session

\* C12 (as claimed): every authenticated user, at any security level and whatever the
\* user's employee link, who submits a valid date and a positive amount gets a pay-raise
\* record created for themselves; users made by create_user included.
C12_AnyUserCanAdd ==
  (/\ SubmittedByUser(resp)
   /\ IsIsoCalendarDate(resp.request.payraise_date)
   /\ IsPositiveAmount(resp.request.raise_amount))
    => (/\ resp.status = 302
        /\ resp.flash = <<"Record added">>
        /\ db.EmpPayRaise # <<>>
        /\ db.EmpPayRaise[Len(db.EmpPayRaise)].user_id = session["user_id"])

\* one message for each failing field, then the summary line
C13_Messages(payraise_date, raise_amount) ==
  (IF ~IsIsoCalendarDate(payraise_date)
     THEN <<"PayRaiseDate must be a valid date (YYYY-MM-DD).">> ELSE <<>>)
    \o (IF ~IsPositiveAmount(raise_amount)
          THEN <<"RaiseAmt must be a positive number.">> ELSE <<>>)
    \o <<"Record not added due to input errors.">>

\* C13 (as claimed): a submission whose date is not a valid calendar date in YYYY-MM-DD
\* form or whose amount is not a positive number is never fatal, inserts no EmpPayRaise
\* row, leaves the record store unchanged, and reports one message for each failing
\* field to the submitting user.
C13_InvalidInput ==
  [][(/\ resp'.op = "add_payraise"
      /\ resp'.request.method = "POST"
      /\ (\/ ~IsIsoCalendarDate(resp'.request.payraise_date)
          \/ ~IsPositiveAmount(resp'.request.raise_amount)))
       => (/\ db' = db
           /\ resp'.status # 500
           /\ ("user_id" \in DOMAIN session =>
                 resp'.flash = C13_Messages(resp'.request.payraise_date,
                                            resp'.request.raise_amount)))]_vars

(* --------------------------- claims: check order ----------------------- *)

\* C14 (as claimed): on /list_payraises a level-3 session is denied by the threshold
\* gate requires_security_level(2) and never reaches the view's exact-match check, while
\* a level-1 session passes the gate and is denied by the exact-match check.
C14_GateOrder ==
  (resp.op = "list_payraises" /\ resp.level \in {1, 3}) =>
    (/\ ~resp.granted
     /\ resp.level = 3 => resp.check = "requires_security_level"
     /\ resp.level = 1 => resp.check = "view")

(* -------------------------- claims: seeding again ---------------------- *)

\* C15: initialize_database is idempotent: run again on a database it has already
\* seeded, after any create_employee and create_payraise calls, it inserts no Employees,
\* Users or EmpPayRaise row and leaves every existing row as it was, each seeded user's
\* security level and employee link included.
C15_Idempotent ==
  [][(schema /\ resp'.op = "initialize_database") =>
       (/\ db' = db
        /\ resp'.error = "none")]_vars

\* initialize_database has just run on a seeded database that holds an employee and
\* pay raises made by the application since
C15_Witness ==
  /\ resp.op = "initialize_database"
  /\ Len(db.Employees) > Len(SeedEntries)
  /\ Len(db.EmpPayRaise) = MaxRows
  /\ \E i \in Ids(db.Employees) :
       i > Len(SeedEntries) /\ db.Employees[i].name = SeedEntries[1].employee.name

====
